---- MODULE Spec2Model ----
(***************************************************************************)
(* Model of dr::yaskawa::udp::Client (src/udp/client.cpp): the request     *)
(* registry, the connect path and the asynchronous receive loop, driven by *)
(* a single-threaded reactor.                                              *)
(***************************************************************************)
EXTENDS Integers, Sequences, FiniteSets, TLC

(* ---------------------------------------------------------------------- *)
(* Bounds                                                                  *)
(* ---------------------------------------------------------------------- *)
MaxNodes    == 2    \* registrations made over a run
MaxConnects == 2    \* connect() calls made over a run
MaxCommands == 1    \* sendCommand() calls made over a run
BufferSize  == 3    \* capacity of read_buffer_, scaled down

(* ---------------------------------------------------------------------- *)
(* Program constants                                                       *)
(* ---------------------------------------------------------------------- *)
IdWidth    == 8     \* request ids are std::uint8_t
Magic      == 9     \* first header byte of a well-formed datagram
HeaderSize == 2     \* bytes consumed by the header: magic, request id

Ids == {0, 1}
\* The datagrams the peer may send: well-formed with and without payload,
\* too short for a header, longer than the buffer.
Datagrams ==
    { <<Magic, 0>>, <<Magic, 0, 7>>, <<Magic, 1, 7, 7>>, <<Magic>> }

\* The callbacks a caller registers, and what a caller's callback may do
\* when it is invoked.
Handlers       == {"h1", "h2"}
HandlerScripts == {"nop", "remove_self", "close"}
PlainScripts   == {"nop", "close"}

NoNode == 0 - 1
NoCmd  == 0 - 1

VARIABLES
    socket_,       \* socket_.is_open()
    requests_,     \* the registry: request id -> entry
    request_id_,   \* the wrapping id counter of the API surface
    read_buffer_,  \* the one receive buffer
    on_error,      \* the global error sink ("none" when unset)
    outstanding,   \* async_receive operations waiting in the reactor
    ready,         \* receive completions queued for onReceive
    connects,      \* connect attempts in flight
    commands,      \* sendCommand sessions
    pc,            \* position of the reactor thread
    frame,         \* locals of the handler the reactor thread is in
    next_node,     \* next registry node to allocate
    crashed,       \* the process faulted
    nconnects,     \* connect() calls so far
    result,        \* outcome of the API call just made
    trace          \* what the dispatch in progress has done so far

vars == << socket_, requests_, request_id_, read_buffer_, on_error, outstanding,
           ready, connects, commands, pc, frame, next_node,
           crashed, nconnects, result, trace >>

NoResult == [op |-> "none"]
NoFrame  == [fn |-> "none"]

Min(a, b) == IF a < b THEN a ELSE b

(* ---------------------------------------------------------------------- *)
(* Header codec                                                            *)
(* ---------------------------------------------------------------------- *)
\* Consumes the header from the front of the view and returns it, or fails.
decodeResponseHeader(message) ==
    IF Len(message) >= HeaderSize /\ message[1] = Magic
    THEN [ok |-> TRUE, request_id |-> message[2],
          rest |-> SubSeq(message, HeaderSize + 1, Len(message))]
    ELSE [ok |-> FALSE, request_id |-> 0, rest |-> message]

\* What a receive of datagram d leaves in the buffer buf.
Overlay(buf, d) ==
    [i \in 1..BufferSize |-> IF i <= Len(d) THEN d[i] ELSE buf[i]]

(* ---------------------------------------------------------------------- *)
(* Registry                                                                *)
(* ---------------------------------------------------------------------- *)
LiveNodes(reg) == { reg[i].node : i \in DOMAIN reg }

IdOfNode(reg, n) == CHOOSE i \in DOMAIN reg : reg[i].node = n

\* Faulty variant of Insert: overwrites the element of a key that is present.
InsertOrAssign(reg, id, entry) ==
    [i \in DOMAIN reg \cup {id} |-> IF i = id THEN entry ELSE reg[i]]

\* std::map::insert: adds the pair unless the key is present.
Insert(reg, id, entry) ==
    IF id \in DOMAIN reg THEN reg
    ELSE [i \in DOMAIN reg \cup {id} |-> IF i = id THEN entry ELSE reg[i]]

\* Faulty variant of find: the first element of the map, whatever the key.
findFirst(reg, id) == reg[CHOOSE i \in DOMAIN reg : \A j \in DOMAIN reg : i <= j]

\* std::map::find for a key that is present: the element with that key.
find(reg, id) == reg[id]

\* Faulty variant of Erase: erases from the element to the end of the map.
EraseToEnd(reg, n) ==
    [i \in { j \in DOMAIN reg : j < IdOfNode(reg, n) } |-> reg[i]]

\* Faulty variant of Erase: erases nothing.
EraseNothing(reg, n) == reg

\* std::map::erase(iterator) on an iterator of a live element.
Erase(reg, n) ==
    [i \in DOMAIN reg \ {IdOfNode(reg, n)} |-> reg[i]]

(* ---------------------------------------------------------------------- *)
(* Socket                                                                  *)
(* ---------------------------------------------------------------------- *)
Canceled(k) == [i \in 1..k |-> [error |-> "canceled", size |-> 0]]

\* What removeHandler(token) can leave behind.  Erasing through the iterator
\* of an element that is no longer in the map is undefined: the call may do
\* nothing, fault, or erase whatever element now lives at that node.
RemoveOutcomes(reg, n) ==
    IF n \in LiveNodes(reg)
    THEN { [reg |-> Erase(reg, n), crash |-> FALSE] }
    ELSE { [reg |-> reg, crash |-> FALSE], [reg |-> reg, crash |-> TRUE] }
         \cup { [reg |-> Erase(reg, m), crash |-> FALSE] : m \in LiveNodes(reg) }

\* The state a user callback can change, as it stands now.
Here ==
    [socket_ |-> socket_, ready |-> ready, outstanding |-> outstanding,
     requests_ |-> requests_, commands |-> commands, crash |-> FALSE]

\* Faulty variant of Closed: the waiting receive is left uncancelled.
ClosedWithoutCancel(s) == [s EXCEPT !.socket_ = FALSE]

\* socket_.close(): the socket is closed and every receive waiting in the
\* reactor completes with operation_canceled.
Closed(s) ==
    [s EXCEPT !.socket_ = FALSE,
              !.ready = s.ready \o Canceled(s.outstanding),
              !.outstanding = 0]

\* Faulty variant of CopyOfCallback: the callback is invoked where it is stored, in
\* the registry node.
ReferenceToCallback(entry) ==
    [handler |-> entry.on_reply.handler, cmd |-> entry.on_reply.cmd,
     token |-> entry.node, stored_in |-> entry.node]

\* The callback value onReceive invokes: a copy of the entry's on_reply,
\* which lives in the frame and not in the registry node.
CopyOfCallback(entry) ==
    [handler |-> entry.on_reply.handler, cmd |-> entry.on_reply.cmd,
     token |-> entry.node, stored_in |-> NoNode]

\* The decoded result of a command response: a command without result data
\* expects an empty payload.
decodeCommandResult(payload) ==
    IF payload = << >> THEN "success" ELSE "decode_error"

\* onDone(outcome) of session k, followed by the removal of its handler.
Complete(s, k, outcome) ==
    { [s EXCEPT !.commands[k].state = "done",
                !.commands[k].done = Append(@, outcome),
                !.requests_ = o.reg,
                !.crash = o.crash]
      : o \in RemoveOutcomes(s.requests_, s.commands[k].node) }

\* What invoking callback cb with (header, payload) can do when it acts as
\* script: nothing, close the client, remove its own registration; the
\* handler of a command session completes the session.
HandlerEffects(cb, script, payload) ==
    CASE script = "nop"         -> { Here }
      [] script = "close"       -> { Closed(Here) }
      [] script = "remove_self" ->
            { [Here EXCEPT !.requests_ = o.reg, !.crash = o.crash]
              : o \in RemoveOutcomes(requests_, cb.token) }
      [] script = "oneshot"     ->
            Complete(Here, cb.cmd, decodeCommandResult(payload))

ScriptsOf(cb) == IF cb.cmd = NoCmd THEN HandlerScripts ELSE {"oneshot"}

\* What invoking the error sink or the connect callback can do.
PlainEffects(script) ==
    IF script = "close" THEN { Closed(Here) } ELSE { Here }

\* Executing a function object that its own call destroyed is undefined.
Dangling(cb, reg) == cb.stored_in # NoNode /\ cb.stored_in \notin LiveNodes(reg)

Init ==
    /\ socket_ = FALSE
    /\ requests_ = << >>
    /\ request_id_ = 0
    /\ read_buffer_ = [i \in 1..BufferSize |-> 0]
    /\ on_error \in BOOLEAN
    /\ outstanding = 0
    /\ ready = << >>
    /\ connects = 0
    /\ commands = << >>
    /\ pc = "idle"
    /\ frame = NoFrame
    /\ next_node = 0
    /\ crashed = FALSE
    /\ nconnects = 0
    /\ result = NoResult
    /\ trace = << >>

\* std::chrono::steady_clock::now(), as a logical clock: it has ticked once
\* for every registration made so far.
Now == next_node

\* The reactor thread is between handlers.
Idle == pc = "idle" /\ ~crashed

\* The tokens the caller holds: every one registerHandler returned to it.
Tokens == (0..(next_node - 1)) \ { commands[k].node : k \in DOMAIN commands }

\* Client::connect: hands the attempt to asyncResolveConnect.
connect ==
    /\ Idle
    /\ nconnects < MaxConnects
    /\ connects' = connects + 1
    /\ nconnects' = nconnects + 1
    /\ result' = NoResult
    /\ trace' = << >>
    /\ UNCHANGED << socket_, requests_, request_id_, read_buffer_, on_error,
                    outstanding, ready, commands, pc, frame, next_node,
                    crashed >>

\* Faulty variant of onConnect: the first receive is issued before the
\* callback is invoked.
onConnectReceivesFirst(error) ==
    /\ Idle
    /\ connects > 0
    /\ socket_' = IF error = "ok" THEN TRUE ELSE socket_
    /\ connects' = connects - 1
    /\ pc' = "connect_callback"
    /\ frame' = [fn |-> "onConnect", error |-> error]
    /\ result' = NoResult
    /\ IF error = "ok"
       THEN /\ outstanding' = outstanding + 1
            /\ trace' = << [ev |-> "async_receive"] >>
       ELSE /\ outstanding' = outstanding
            /\ trace' = << >>
    /\ UNCHANGED << requests_, request_id_, read_buffer_, on_error,
                    ready, commands, next_node, crashed, nconnects >>

\* asyncResolveConnect completes an attempt: on success the socket is open.
\* Client::onConnect then starts with the callback still to be invoked.
onConnect(error) ==
    /\ Idle
    /\ connects > 0
    /\ socket_' = IF error = "ok" THEN TRUE ELSE socket_
    /\ connects' = connects - 1
    /\ pc' = "connect_callback"
    /\ frame' = [fn |-> "onConnect", error |-> error]
    /\ result' = NoResult
    /\ trace' = << >>
    /\ UNCHANGED << requests_, request_id_, read_buffer_, on_error, outstanding,
                    ready, commands, next_node, crashed, nconnects >>

\* Faulty variant of ConnectCallback: receive() follows whatever the error.
ConnectCallbackAlwaysReceives ==
    /\ pc = "connect_callback" /\ ~crashed
    /\ \E script \in PlainScripts : \E e \in PlainEffects(script) :
          /\ socket_' = e.socket_
          /\ ready' = e.ready
          /\ outstanding' = e.outstanding
          /\ trace' = Append(trace, [ev |-> "connect_callback", error |-> frame.error,
                                     did |-> script])
    /\ pc' = "receive"
    /\ UNCHANGED << requests_, request_id_, read_buffer_, on_error, connects,
                    commands, frame, next_node, crashed, nconnects, result >>

\* callback(error) in onConnect; receive() follows when there was no error.
ConnectCallback ==
    /\ pc = "connect_callback" /\ ~crashed
    /\ \E script \in PlainScripts : \E e \in PlainEffects(script) :
          /\ socket_' = e.socket_
          /\ ready' = e.ready
          /\ outstanding' = e.outstanding
          /\ trace' = Append(trace, [ev |-> "connect_callback", error |-> frame.error,
                                     did |-> script])
    /\ pc' = IF frame.error = "ok" THEN "receive" ELSE "idle"
    /\ frame' = IF frame.error = "ok" THEN frame ELSE NoFrame
    /\ UNCHANGED << requests_, request_id_, read_buffer_, on_error, connects,
                    commands, next_node, crashed, nconnects, result >>

\* Faulty variant of receive: the receive is issued without looking at the
\* socket.
receiveUnguarded ==
    /\ pc = "receive" /\ ~crashed
    /\ outstanding' = outstanding + 1
    /\ trace' = Append(trace, [ev |-> "async_receive"])
    /\ pc' = "idle"
    /\ frame' = NoFrame
    /\ UNCHANGED << socket_, requests_, request_id_, read_buffer_, on_error,
                    ready, connects, commands, next_node, crashed,
                    nconnects, result >>

\* Client::receive
receive ==
    /\ pc = "receive" /\ ~crashed
    /\ IF socket_
       THEN /\ outstanding' = outstanding + 1
            /\ trace' = Append(trace, [ev |-> "async_receive"])
       ELSE UNCHANGED << outstanding, trace >>
    /\ pc' = "idle"
    /\ frame' = NoFrame
    /\ UNCHANGED << socket_, requests_, request_id_, read_buffer_, on_error,
                    ready, connects, commands, next_node, crashed,
                    nconnects, result >>

\* Client::close
close ==
    /\ Idle
    /\ socket_' = Closed(Here).socket_
    /\ ready' = Closed(Here).ready
    /\ outstanding' = Closed(Here).outstanding
    /\ result' = NoResult
    /\ trace' = << >>
    /\ UNCHANGED << requests_, request_id_, read_buffer_, on_error, connects,
                    commands, pc, frame, next_node, crashed, nconnects >>

\* The reactor completes a waiting receive with datagram d: the bytes that
\* fit are written to the buffer and the completion is queued.
Deliver(d) ==
    /\ Idle
    /\ outstanding > 0
    /\ read_buffer_' = Overlay(read_buffer_, d)
    /\ ready' = Append(ready, [error |-> "ok", size |-> Min(Len(d), BufferSize)])
    /\ outstanding' = outstanding - 1
    /\ result' = NoResult
    /\ trace' = << >>
    /\ UNCHANGED << socket_, requests_, request_id_, on_error, connects,
                    commands, pc, frame, next_node, crashed, nconnects >>

\* The reactor completes a waiting receive with a socket error.
TransportError ==
    /\ Idle
    /\ outstanding > 0
    /\ ready' = Append(ready, [error |-> "other", size |-> 0])
    /\ outstanding' = outstanding - 1
    /\ result' = NoResult
    /\ trace' = << >>
    /\ UNCHANGED << socket_, requests_, request_id_, read_buffer_, on_error,
                    connects, commands, pc, frame, next_node, crashed,
                    nconnects >>

\* Faulty variant of Report: the sink is never told.
ReportDropped(completion, report) ==
    /\ pc' = "receive"
    /\ frame' = [fn |-> "onReceive", completion |-> completion,
                 path |-> report.code, report |-> report, registry |-> requests_]

\* Faulty variant of Report: onReceive returns on an error, without the sink
\* and without receive().
ReportAndReturn(completion, report) ==
    /\ pc' = "idle"
    /\ frame' = NoFrame

\* Where onReceive goes with a report for the sink: to the sink when one is
\* set, straight to receive() otherwise.
Report(completion, report) ==
    /\ pc' = IF on_error THEN "sink" ELSE "receive"
    /\ frame' = [fn |-> "onReceive", completion |-> completion,
                 path |-> report.code, report |-> report, registry |-> requests_]

\* Faulty variant of IsCanceled: cancellation is not told apart.
IsCanceledNever(c) == FALSE

\* error == std::errc::operation_canceled
IsCanceled(c) == c.error = "canceled"

\* if (error)
HasError(c) == c.error # "ok"

\* Client::onReceive up to the point where it calls out.
onReceive ==
    /\ Idle
    /\ ready # << >>
    /\ ready' = Tail(ready)
    /\ trace' = << >>
    /\ result' = IF IsCanceled(Head(ready)) THEN [op |-> "canceled"] ELSE NoResult
    /\ LET c       == Head(ready)
           message == SubSeq(read_buffer_, 1, c.size)
           header  == decodeResponseHeader(message)
       IN  IF IsCanceled(c) THEN
                  /\ pc' = "idle"
                  /\ frame' = NoFrame
           ELSE IF HasError(c) THEN
                  Report(c, [code |-> "transport"])
           ELSE IF ~header.ok THEN
                  Report(c, [code |-> "decode"])
           ELSE IF header.request_id \notin DOMAIN requests_ THEN
                  Report(c, [code |-> "unknown_request", request_id |-> header.request_id])
           ELSE
                  /\ pc' = "callback"
                  /\ frame' = [fn |-> "onReceive", completion |-> c, path |-> "found",
                               callback |-> CopyOfCallback(find(requests_, header.request_id)),
                               header |-> [request_id |-> header.request_id],
                               message |-> header.rest,
                               registry |-> requests_]
    /\ UNCHANGED << socket_, requests_, request_id_, read_buffer_, on_error,
                    outstanding, connects, commands, next_node, crashed,
                    nconnects >>

\* Faulty variant of ErrorSink: an error drops every pending request.
ErrorSinkDropsPending ==
    /\ pc = "sink" /\ ~crashed
    /\ \E script \in PlainScripts : \E e \in PlainEffects(script) :
          /\ socket_' = e.socket_
          /\ ready' = e.ready
          /\ outstanding' = e.outstanding
          /\ trace' = Append(trace, [ev |-> "on_error", report |-> frame.report,
                                     did |-> script])
    /\ requests_' = << >>
    /\ pc' = "receive"
    /\ UNCHANGED << request_id_, read_buffer_, on_error, connects,
                    commands, frame, next_node, crashed, nconnects, result >>

\* on_error(...) in onReceive; receive() follows.
ErrorSink ==
    /\ pc = "sink" /\ ~crashed
    /\ \E script \in PlainScripts : \E e \in PlainEffects(script) :
          /\ socket_' = e.socket_
          /\ ready' = e.ready
          /\ outstanding' = e.outstanding
          /\ trace' = Append(trace, [ev |-> "on_error", report |-> frame.report,
                                     did |-> script])
    /\ pc' = "receive"
    /\ UNCHANGED << requests_, request_id_, read_buffer_, on_error, connects,
                    commands, frame, next_node, crashed, nconnects, result >>

\* Faulty variant of InvokeCallback: the entry is erased once its callback
\* has been invoked.
InvokeCallbackOnce ==
    /\ pc = "callback" /\ ~crashed
    /\ \E script \in ScriptsOf(frame.callback) :
       \E e \in HandlerEffects(frame.callback, script, frame.message) :
          /\ socket_' = e.socket_
          /\ ready' = e.ready
          /\ outstanding' = e.outstanding
          /\ requests_' = IF frame.callback.token \in LiveNodes(e.requests_)
                          THEN Erase(e.requests_, frame.callback.token)
                          ELSE e.requests_
          /\ commands' = e.commands
          /\ crashed' \in IF Dangling(frame.callback, e.requests_)
                          THEN {TRUE, FALSE} ELSE {e.crash}
          /\ trace' = Append(trace, [ev |-> "callback", token |-> frame.callback.token,
                                     handler |-> frame.callback.handler,
                                     header |-> frame.header, message |-> frame.message,
                                     did |-> script])
    /\ pc' = "receive"
    /\ UNCHANGED << request_id_, read_buffer_, on_error, connects, frame,
                    next_node, nconnects, result >>

\* callback(*header, message) in onReceive; receive() follows.
InvokeCallback ==
    /\ pc = "callback" /\ ~crashed
    /\ \E script \in ScriptsOf(frame.callback) :
       \E e \in HandlerEffects(frame.callback, script, frame.message) :
          /\ socket_' = e.socket_
          /\ ready' = e.ready
          /\ outstanding' = e.outstanding
          /\ requests_' = e.requests_
          /\ commands' = e.commands
          /\ crashed' \in IF Dangling(frame.callback, e.requests_)
                          THEN {TRUE, FALSE} ELSE {e.crash}
          /\ trace' = Append(trace, [ev |-> "callback", token |-> frame.callback.token,
                                     handler |-> frame.callback.handler,
                                     header |-> frame.header, message |-> frame.message,
                                     did |-> script])
    /\ pc' = "receive"
    /\ UNCHANGED << request_id_, read_buffer_, on_error, connects, frame,
                    next_node, nconnects, result >>

\* Client::registerHandler
registerHandler(request_id, handler) ==
    /\ Idle
    /\ request_id \in DOMAIN requests_ \/ next_node < MaxNodes
    /\ requests_' = Insert(requests_, request_id,
                           [time |-> Now, on_reply |-> [handler |-> handler, cmd |-> NoCmd],
                            node |-> next_node])
    /\ IF request_id \in DOMAIN requests_
       THEN /\ result' = [op |-> "registerHandler", request_id |-> request_id,
                          handler |-> handler, outcome |-> "logic_error"]
            /\ UNCHANGED next_node
       ELSE /\ result' = [op |-> "registerHandler", request_id |-> request_id,
                          handler |-> handler, outcome |-> "token",
                          token |-> next_node]
            /\ next_node' = next_node + 1
    /\ trace' = << >>
    /\ UNCHANGED << socket_, request_id_, read_buffer_, on_error, outstanding,
                    ready, connects, commands, pc, frame, crashed, nconnects >>

\* Client::removeHandler
removeHandler(token) ==
    /\ Idle
    /\ token \in Tokens
    /\ \E o \in RemoveOutcomes(requests_, token) :
          /\ requests_' = o.reg
          /\ crashed' = o.crash
    /\ result' = [op |-> "removeHandler", token |-> token,
                  valid |-> token \in LiveNodes(requests_)]
    /\ trace' = << >>
    /\ UNCHANGED << socket_, request_id_, read_buffer_, on_error, outstanding,
                    ready, connects, commands, pc, frame, next_node,
                    nconnects >>

\* An entry point of the API surface takes the next request id
\* (request_id_++) and starts a session with it: the session registers its
\* handler under that id and arms its timer.
StartSession(op) ==
    /\ Idle
    /\ Len(commands) < MaxCommands
    /\ request_id_ \in DOMAIN requests_ \/ next_node < MaxNodes
    /\ request_id_' = (request_id_ + 1) % (2 ^ IdWidth)
    /\ requests_' = Insert(requests_, request_id_,
                           [time |-> Now,
                            on_reply |-> [handler |-> "oneshot", cmd |-> Len(commands) + 1],
                            node |-> next_node])
    /\ IF request_id_ \in DOMAIN requests_
       THEN /\ commands' = Append(commands, [request_id |-> request_id_, node |-> NoNode,
                                             state |-> "rejected", done |-> << >>])
            /\ result' = [op |-> op, request_id |-> request_id_, in_use |-> TRUE,
                          outcome |-> "logic_error"]
            /\ UNCHANGED next_node
       ELSE /\ commands' = Append(commands, [request_id |-> request_id_, node |-> next_node,
                                             state |-> "pending", done |-> << >>])
            /\ result' = [op |-> op, request_id |-> request_id_, in_use |-> FALSE,
                          outcome |-> "sent"]
            /\ next_node' = next_node + 1
    /\ trace' = << >>
    /\ UNCHANGED << socket_, read_buffer_, on_error, outstanding, ready, connects,
                    pc, frame, crashed, nconnects >>

\* Client::readFileList: impl::readFile(*this, request_id_++, ...)
readFileList == StartSession("readFileList")

\* Client::readFile: impl::readFile(*this, request_id_++, ...)
readFile == StartSession("readFile")

\* Client::writeFile: impl::writeFile(*this, request_id_++, ...)
writeFile == StartSession("writeFile")

\* Client::deleteFile: sendCommand(DeleteFile{...}, timeout, on_done)
sendCommand == StartSession("sendCommand")

\* The timer of session k expires before its response was dispatched.
TimerFire(k) ==
    /\ Idle
    /\ k \in DOMAIN commands
    /\ commands[k].state = "pending"
    /\ \E e \in Complete(Here, k, "timeout") :
          /\ requests_' = e.requests_
          /\ commands' = e.commands
          /\ crashed' = e.crash
    /\ result' = [op |-> "timer", cmd |-> k]
    /\ trace' = << >>
    /\ UNCHANGED << socket_, request_id_, read_buffer_, on_error, outstanding,
                    ready, connects, pc, frame, next_node, nconnects >>

Next ==
    \/ connect
    \/ \E error \in {"ok", "failed"} : onConnect(error)
    \/ ConnectCallback
    \/ receive
    \/ close
    \/ \E d \in Datagrams : Deliver(d)
    \/ TransportError
    \/ onReceive
    \/ ErrorSink
    \/ InvokeCallback
    \/ \E id \in Ids, h \in Handlers : registerHandler(id, h)
    \/ \E n \in 0..(MaxNodes - 1) : removeHandler(n)
    \/ readFileList
    \/ readFile
    \/ writeFile
    \/ sendCommand
    \/ \E k \in 1..MaxCommands : TimerFire(k)

Spec == Init /\ [][Next]_vars

\* The reactor runs every handler that is ready: a handler that has started
\* runs on, and an armed timer expires.
FairSpec ==
    /\ Spec
    /\ WF_vars(ConnectCallback)
    /\ WF_vars(ErrorSink)
    /\ WF_vars(InvokeCallback)
    /\ WF_vars(receive)
    /\ \A k \in 1..MaxCommands : SF_vars(TimerFire(k))

(* ---------------------------------------------------------------------- *)
(* Properties                                                              *)
(* ---------------------------------------------------------------------- *)
\* onReceive has made all its calls and is about to call receive().
Dispatched == pc = "receive" /\ frame.fn = "onReceive"

\* The bytes the completion being dispatched delivered.
ReceivedMessage == SubSeq(read_buffer_, 1, frame.completion.size)

IsCallback(e) == e.ev = "callback"
IsOnError(e)  == e.ev = "on_error"
CallbackEvents == SelectSeq(trace, IsCallback)
OnErrorEvents  == SelectSeq(trace, IsOnError)

\* The completion being dispatched succeeded and its header decodes.
WellFormed ==
    /\ frame.completion.error = "ok"
    /\ decodeResponseHeader(ReceivedMessage).ok

\* C1: a successful completion whose header decodes to an id that is in the
\* registry at lookup invokes the callback of exactly that entry, once, with
\* the header and the bytes after the header, and no other callback.
C1_DispatchInvokesMatchingEntryOnce ==
    (Dispatched /\ WellFormed /\ ReceivedMessage[2] \in DOMAIN frame.registry)
    => LET id    == ReceivedMessage[2]
           entry == frame.registry[id]
       IN  /\ Len(CallbackEvents) = 1
           /\ CallbackEvents[1].token = entry.node
           /\ CallbackEvents[1].handler = entry.on_reply.handler
           /\ CallbackEvents[1].header = [request_id |-> id]
           /\ CallbackEvents[1].message =
                  SubSeq(ReceivedMessage, HeaderSize + 1, Len(ReceivedMessage))

\* A dispatch to one of two registered entries, with a payload.
C1_Witness ==
    /\ Dispatched
    /\ Len(CallbackEvents) = 1
    /\ Cardinality(DOMAIN frame.registry) = 2
    /\ CallbackEvents[1].header.request_id = 1
    /\ CallbackEvents[1].message # << >>

\* C2: a successful completion whose header decodes to an id that is not in
\* the registry invokes no callback, and the error sink (when one is set)
\* gets exactly one unknown-request notification carrying that id.
C2_UnknownRequestReportedOnce ==
    (Dispatched /\ WellFormed /\ ReceivedMessage[2] \notin DOMAIN frame.registry)
    => /\ CallbackEvents = << >>
       /\ Len(OnErrorEvents) = (IF on_error THEN 1 ELSE 0)
       /\ \A i \in DOMAIN OnErrorEvents :
             OnErrorEvents[i].report =
                [code |-> "unknown_request", request_id |-> ReceivedMessage[2]]

\* An unknown id reported while another entry is registered.
C2_Witness ==
    /\ Dispatched
    /\ WellFormed
    /\ ReceivedMessage[2] \notin DOMAIN frame.registry
    /\ frame.registry # << >>
    /\ Len(OnErrorEvents) = 1

\* C3: registerHandler for an id that is in the registry fails with the
\* duplicate-id error and leaves the registry exactly as it was.
C3_DuplicateRegistrationRejected ==
    [][ (result'.op = "registerHandler" /\ result'.request_id \in DOMAIN requests_)
        => (result'.outcome = "logic_error" /\ requests_' = requests_) ]_vars

\* A rejected registration whose handler and timestamp differ from the
\* entry that is kept.
C3_Witness ==
    /\ result.op = "registerHandler"
    /\ result.outcome = "logic_error"
    /\ requests_[result.request_id].on_reply.handler # result.handler
    /\ requests_[result.request_id].time # Now

\* C4: registerHandler for an id that is not in the registry succeeds and
\* adds exactly that entry; removeHandler with the token of a live entry
\* deletes exactly that entry; every other entry stays as it was.
C4_RegisterAddsRemoveDeletesExactlyOne ==
    [][ /\ (result'.op = "registerHandler" /\ result'.request_id \notin DOMAIN requests_)
           => /\ result'.outcome = "token"
              /\ result'.token \notin LiveNodes(requests_)
              /\ DOMAIN requests_' = DOMAIN requests_ \cup {result'.request_id}
              /\ \A i \in DOMAIN requests_ : requests_'[i] = requests_[i]
              /\ requests_'[result'.request_id].node = result'.token
              /\ requests_'[result'.request_id].on_reply.handler = result'.handler
        /\ (result'.op = "removeHandler" /\ result'.token \in LiveNodes(requests_))
           => /\ ~crashed'
              /\ LiveNodes(requests_') = LiveNodes(requests_) \ {result'.token}
              /\ Cardinality(DOMAIN requests_') = Cardinality(DOMAIN requests_) - 1
              /\ \A i \in DOMAIN requests_' :
                    i \in DOMAIN requests_ /\ requests_'[i] = requests_[i] ]_vars

\* A live token was removed and the other registration is still there.
C4_Witness ==
    /\ result.op = "removeHandler"
    /\ result.valid
    /\ ~crashed
    /\ Cardinality(DOMAIN requests_) = 1
    /\ next_node = 2

\* C5: a handler that removes its own registration while it is invoked runs
\* to completion, its entry is gone when it returns, and receive() then
\* issues the next receive if the socket is open.
C5_SelfRemovalDuringInvocation ==
    /\ (pc \in {"receive", "idle"} /\ trace # << >> /\ trace[1].ev = "callback"
          /\ trace[1].did = "remove_self")
       => /\ ~crashed
          /\ trace[1].token \notin LiveNodes(requests_)
          /\ trace[1].header.request_id \notin DOMAIN requests_
    /\ (pc = "idle" /\ trace # << >> /\ trace[1].ev = "callback"
          /\ trace[1].did = "remove_self" /\ socket_)
       => (Len(trace) = 2 /\ trace[2].ev = "async_receive")

\* A handler removed itself and the next receive was issued.
C5_Witness ==
    /\ pc = "idle"
    /\ Len(trace) = 2
    /\ trace[1].ev = "callback"
    /\ trace[1].did = "remove_self"
    /\ trace[2].ev = "async_receive"
    /\ outstanding > 0

\* C6: once the socket is closed, onReceive invokes no handler.
C6_NoCallbackAfterClose == pc = "callback" => socket_

\* C7: once the socket is closed, onReceive reports nothing to the sink.
C7_NoSinkAfterClose == pc = "sink" => socket_

\* The onDone of a command session is invoked at most once and, once the
\* response was dispatched or the timer fired, exactly once: with the
\* decoded result of the response, or with timeout; the session's handler
\* is then out of the registry.
OnDoneAtMostOnce ==
    /\ \A k \in DOMAIN commands :
          /\ Len(commands[k].done) <= 1
          /\ commands[k].state = "pending" => commands[k].done = << >>
          /\ commands[k].state = "done"
                => /\ Len(commands[k].done) = 1
                   /\ commands[k].node \notin LiveNodes(requests_)
    /\ (Dispatched /\ CallbackEvents # << >> /\ CallbackEvents[1].did = "oneshot")
       => /\ commands[frame.callback.cmd].state = "done"
          /\ commands[frame.callback.cmd].done =
                << IF Len(ReceivedMessage) = HeaderSize THEN "success"
                   ELSE "decode_error" >>
    /\ result.op = "timer"
       => /\ commands[result.cmd].state = "done"
          /\ commands[result.cmd].done = << "timeout" >>

\* Every session that was started completes (unless the process faulted).
OnDoneEventually ==
    \A k \in 1..MaxCommands :
        (k \in DOMAIN commands /\ commands[k].state = "pending")
           ~> ((k \in DOMAIN commands /\ commands[k].state = "done") \/ crashed)

\* C8: for every command session, onDone is invoked exactly once in every
\* interleaving of the matching response and the timer: with the decoded
\* result (success or decode error) if the response is dispatched first,
\* with timeout if the timer fires first; the one-shot handler is removed
\* in each case and no later response or timer event invokes onDone again.
C8_OnDoneExactlyOnce == []OnDoneAtMostOnce /\ OnDoneEventually

\* A response for a session that has completed is reported as unknown and
\* its onDone is not invoked again.
C8_Witness ==
    /\ pc = "sink"
    /\ frame.path = "unknown_request"
    /\ \E k \in DOMAIN commands :
          /\ commands[k].state = "done"
          /\ commands[k].request_id = frame.report.request_id
          /\ Len(commands[k].done) = 1

\* C9: at most one receive is waiting in the reactor.
C9_AtMostOneReceiveOutstanding == outstanding <= 1

\* C10: while a handler is invoked no other receive has been issued: none
\* is waiting and none has completed with a datagram.
C10_HandlerReturnsBeforeNextReceive ==
    pc = "callback"
    => /\ outstanding = 0
       /\ \A i \in DOMAIN ready : ready[i].error # "ok"

\* The completion is a transport error other than cancellation, or a success
\* whose header does not decode.
FailedCompletion(c) ==
    \/ c.error = "other"
    \/ /\ c.error = "ok"
       /\ ~decodeResponseHeader(SubSeq(read_buffer_, 1, c.size)).ok

\* onReceive takes the completion at the head of the queue.
TakesCompletion == Idle /\ ready # << >> /\ ready' = Tail(ready)

\* What the dispatch of a failed completion has done when it reaches receive().
C11_ReportedOnce ==
    (Dispatched /\ FailedCompletion(frame.completion))
    => /\ CallbackEvents = << >>
       /\ IF on_error
          THEN /\ Len(trace) = 1
               /\ trace[1].ev = "on_error"
               /\ trace[1].report =
                      [code |-> IF frame.completion.error = "other"
                                THEN "transport" ELSE "decode"]
          ELSE trace = << >>

\* The steps of the dispatch of a failed completion: to the sink when one is
\* set, then to receive(), which issues a receive when the socket is open.
C11_LoopGoesOn ==
    /\ (TakesCompletion /\ FailedCompletion(Head(ready)))
       => pc' = IF on_error THEN "sink" ELSE "receive"
    /\ (pc = "sink" /\ pc' # "sink") => pc' = "receive"
    /\ (Dispatched /\ FailedCompletion(frame.completion) /\ pc' = "idle")
       => /\ outstanding' = outstanding + (IF socket_ THEN 1 ELSE 0)
          /\ socket_ => trace'[Len(trace')] = [ev |-> "async_receive"]

\* C11: a receive completion that is a transport error other than
\* cancellation, or a success whose header does not decode, is reported to
\* the error sink exactly once (when a sink is set) and to no handler, and
\* then receive() is reached and issues a new receive when the socket is
\* still open: the error does not stop the receive loop.
C11_ErrorReportedAndLoopContinues ==
    []C11_ReportedOnce /\ [][C11_LoopGoesOn]_vars

\* A decode failure was reported to the sink and a new receive was issued.
C11_Witness ==
    /\ pc = "idle"
    /\ Len(trace) = 2
    /\ trace[1].ev = "on_error"
    /\ trace[1].report.code = "decode"
    /\ trace[2].ev = "async_receive"
    /\ outstanding = 1
    /\ requests_ # << >>

\* The handling of a connect completion has returned.
ConnectHandled == pc = "idle" /\ trace # << >> /\ trace[1].ev = "connect_callback"

\* C12 as the spec states it: after a successful connect a first receive
\* has been issued; after a failed one the error went to the connect
\* callback and no receive was issued.
C12_ReceiveIssuedOnSuccess ==
    ConnectHandled
    => IF trace[1].error = "ok"
       THEN Len(trace) = 2 /\ trace[2].ev = "async_receive" /\ outstanding > 0
       ELSE Len(trace) = 1

\* The same, with the first receive issued only when the socket is still
\* open on return from the connect callback.
C12_ReceiveIssuedWhileOpen ==
    ConnectHandled
    => IF trace[1].error = "ok" /\ socket_
       THEN Len(trace) = 2 /\ trace[2].ev = "async_receive" /\ outstanding > 0
       ELSE Len(trace) = 1

\* The connect callback gets the error of the attempt; receive() follows
\* exactly when there was none, and a failed attempt adds no receive.
C12_CallbackStep ==
    (pc = "connect_callback" /\ pc' # "connect_callback")
    => /\ Len(trace') = 1
       /\ trace'[1].ev = "connect_callback"
       /\ trace'[1].error = frame.error
       /\ pc' = IF frame.error = "ok" THEN "receive" ELSE "idle"
       /\ frame.error # "ok" => outstanding' <= outstanding

\* C12: when resolve/connect completes without error, the connect callback
\* is told and receive() issues the first receive provided the socket is
\* still open when the callback returns; when it completes with an error,
\* that error is reported to the connect callback and no receive is issued
\* for that attempt.
C12_ConnectStartsLoopWhileOpen ==
    []C12_ReceiveIssuedWhileOpen /\ [][C12_CallbackStep]_vars

\* A successful attempt whose callback closed the socket: the callback was
\* told of the success and no receive was issued.
C12_Witness ==
    /\ ConnectHandled
    /\ trace[1].error = "ok"
    /\ trace[1].did = "close"
    /\ Len(trace) = 1
    /\ ~socket_
    /\ outstanding = 0

\* C13: a receive completion that signals cancellation makes onReceive
\* return at once: no receive is issued, no handler is invoked, nothing is
\* reported to the sink, and no state of the client changes.
C13_CancellationStopsLoop ==
    [][ (TakesCompletion /\ Head(ready).error = "canceled")
        => /\ pc' = "idle"
           /\ trace' = << >>
           /\ outstanding' = outstanding
           /\ UNCHANGED << socket_, requests_, request_id_, read_buffer_,
                           commands, crashed >> ]_vars

\* A cancellation was taken while a handler is registered and a sink is
\* set: the loop is at rest with nothing outstanding and nothing called.
C13_Witness ==
    /\ result.op = "canceled"
    /\ pc = "idle"
    /\ trace = << >>
    /\ outstanding = 0
    /\ ready = << >>
    /\ requests_ # << >>
    /\ on_error

\* C14: close() marks the socket closed and cancels the waiting receives
\* (each completes with cancellation), invokes no handler and leaves the
\* registry as it was; close() on a closed socket changes no state.
C14_CloseIdempotentRegistryUntouched ==
    [][ close
        => /\ ~socket_'
           /\ outstanding' = 0
           /\ ready' = ready \o [i \in 1..outstanding |->
                                    [error |-> "canceled", size |-> 0]]
           /\ trace' = << >>
           /\ UNCHANGED << requests_, request_id_, read_buffer_, on_error,
                           commands, pc, crashed >>
           /\ ~socket_ => UNCHANGED << socket_, outstanding, ready >> ]_vars

\* close() has cancelled a waiting receive and both registrations are
\* still in the registry.
C14_Witness ==
    /\ pc = "idle"
    /\ ~socket_
    /\ outstanding = 0
    /\ ready = << [error |-> "canceled", size |-> 0] >>
    /\ Cardinality(DOMAIN requests_) = 2
    /\ result = NoResult

\* The entry points that take their request id from request_id_++.
ApiSurface == {"readFileList", "readFile", "writeFile", "sendCommand"}

C16_GuardedIssue ==
    /\ outstanding' > outstanding
       => /\ pc = "receive"
          /\ socket_
          /\ outstanding' = outstanding + 1
    /\ (pc = "receive" /\ pc' = "idle" /\ ~socket_)
       => /\ outstanding' = outstanding
          /\ trace' = trace

\* C16: every issue of a receive is guarded by the is-open check of
\* receive(): when the socket is closed on reaching receive() (a handler or
\* the sink has just called close()), no receive is issued and the loop
\* halts; so a receive is waiting only while the socket is open.
C16_ReceiveOnlyWhileOpen ==
    [](outstanding > 0 => socket_) /\ [][C16_GuardedIssue]_vars

\* A handler closed the socket and receive() issued nothing.
C16_Witness ==
    /\ pc = "idle"
    /\ Len(trace) = 1
    /\ trace[1].ev = "callback"
    /\ trace[1].did = "close"
    /\ ~socket_
    /\ outstanding = 0

\* The completion is a successful one whose header decodes to an id that
\* is not a key of reg.
UnknownId(c, reg) ==
    /\ c.error = "ok"
    /\ decodeResponseHeader(SubSeq(read_buffer_, 1, c.size)).ok
    /\ decodeResponseHeader(SubSeq(read_buffer_, 1, c.size)).request_id
          \notin DOMAIN reg

\* The dispatch of a transport error, a decode failure or an unknown id has
\* invoked no handler and has left the registry and the sessions alone.
C17_NoHandlerOnErrorPath ==
    (Dispatched /\ (FailedCompletion(frame.completion)
                      \/ UnknownId(frame.completion, frame.registry)))
    => /\ CallbackEvents = << >>
       /\ requests_ = frame.registry
       /\ pc # "callback"

\* Each step of such a dispatch: taking the completion, the sink, receive().
C17_ErrorStepsKeepRegistry ==
    ( \/ TakesCompletion /\ (FailedCompletion(Head(ready))
                                \/ UnknownId(Head(ready), requests_))
      \/ pc = "sink"
      \/ Dispatched /\ (FailedCompletion(frame.completion)
                          \/ UnknownId(frame.completion, frame.registry)) )
    => /\ pc' # "callback"
       /\ UNCHANGED << requests_, commands >>

\* C17: the error paths of the receive loop never touch pending requests:
\* on a transport error, a decode failure or an unknown id no registered
\* handler is invoked, no session is completed and the registry stays as
\* it was.
C17_ErrorPathsKeepRegistry ==
    []C17_NoHandlerOnErrorPath /\ [][C17_ErrorStepsKeepRegistry]_vars

\* A transport error was reported while two requests are pending.
C17_Witness ==
    /\ Dispatched
    /\ frame.completion.error = "other"
    /\ Len(trace) = 1
    /\ trace[1].ev = "on_error"
    /\ Cardinality(DOMAIN requests_) = 2
    /\ \E k \in DOMAIN commands : commands[k].state = "pending"

\* The handler that was invoked called neither registerHandler nor
\* removeHandler.
KeepsRegistry(e) == e.ev = "callback" /\ e.did \in {"nop", "close"}

\* onReceive has invoked a matched handler that left the registry alone.
DispatchedToKeeper ==
    /\ Dispatched
    /\ trace # << >>
    /\ KeepsRegistry(trace[1])

\* After such a dispatch the registry is what it was at lookup and the
\* entry is still the one under its id.
C18_EntryStillLive ==
    DispatchedToKeeper
    => /\ requests_ = frame.registry
       /\ trace[1].header.request_id \in DOMAIN requests_
       /\ requests_[trace[1].header.request_id].node = trace[1].token
       /\ requests_[trace[1].header.request_id].on_reply.handler = trace[1].handler

\* The steps of a dispatch to such a handler keep the registry, and a
\* well-formed datagram whose id is in the registry goes to the callback of
\* the entry under that id.
C18_DispatchSteps ==
    /\ (pc = "callback" /\ pc' = "receive" /\ KeepsRegistry(trace'[Len(trace')]))
       => requests_' = requests_
    /\ (DispatchedToKeeper /\ pc' = "idle") => requests_' = requests_
    /\ (TakesCompletion /\ Head(ready).error = "ok"
          /\ ~FailedCompletion(Head(ready)) /\ ~UnknownId(Head(ready), requests_))
       => LET id == read_buffer_[2]
          IN  /\ pc' = "callback"
              /\ frame'.callback.token = requests_[id].node
              /\ frame'.callback.handler = requests_[id].on_reply.handler
              /\ requests_' = requests_

\* C18: dispatch by itself never modifies the registry: after onReceive
\* has invoked a matched handler that calls neither registerHandler nor
\* removeHandler, the registry is unchanged and the entry is still live,
\* so each later well-formed datagram with that id is dispatched to that
\* same handler, once per datagram.
C18_DispatchKeepsRegistry ==
    []C18_EntryStillLive /\ [][C18_DispatchSteps]_vars

\* A handler that did nothing was invoked while another entry is
\* registered, and the next receive has not yet been issued.
C18_Witness ==
    /\ DispatchedToKeeper
    /\ trace[1].did = "nop"
    /\ Len(trace) = 1
    /\ Cardinality(DOMAIN requests_) = 2
    /\ socket_
    /\ outstanding = 0

IsConnectCallback(e) == e.ev = "connect_callback"

\* The calls made so far for a connect completion: none while the callback
\* is still to be invoked, then the callback, once and first; a receive
\* comes after it, and none when the callback closed the socket.
C19_CallbackOnceAndFirst ==
    /\ (pc = "connect_callback") => trace = << >>
    /\ (pc = "receive" /\ frame.fn = "onConnect")
       => /\ Len(trace) = 1
          /\ trace[1].ev = "connect_callback"
          /\ trace[1].error = "ok"
    /\ ConnectHandled
       => /\ Len(SelectSeq(trace, IsConnectCallback)) = 1
          /\ \A i \in 2..Len(trace) : trace[i].ev = "async_receive"
          /\ Len(trace) <= 2
          /\ trace[1].did = "close"
                => (Len(trace) = 1 /\ ~socket_ /\ outstanding = 0)

\* No step of onConnect issues a receive before the callback has been
\* invoked, and none at all after a callback that closed the socket.
C19_NoReceiveBeforeCallback ==
    /\ pc' = "connect_callback" => outstanding' = outstanding
    /\ pc = "connect_callback" => outstanding' <= outstanding
    /\ (pc = "receive" /\ frame.fn = "onConnect" /\ trace[1].did = "close")
       => outstanding' = 0

\* C19: for every completion of a connect attempt the connect callback is
\* invoked exactly once, before the first receive is issued; when that
\* callback closes the socket on a successful connect, receive() finds the
\* socket closed and no receive is issued.
C19_ConnectCallbackOnceBeforeReceive ==
    []C19_CallbackOnceAndFirst /\ [][C19_NoReceiveBeforeCallback]_vars

\* A second successful connect: the callback was invoked, then the receive
\* was issued.
C19_Witness ==
    /\ ConnectHandled
    /\ trace[1].error = "ok"
    /\ trace[1].did = "nop"
    /\ Len(trace) = 2
    /\ trace[2].ev = "async_receive"
    /\ nconnects = 2
    /\ connects = 0

====
